---- MODULE Spec2Model ----
(***************************************************************************)
(* The two todo services of AI_Fellowship/REST_Api:                        *)
(*   Fast_APi/app.py  count-based ids (len(todos) + 1), full CRUD          *)
(*   Flask/app.py     monotonic counter next_id, list and add only         *)
(* A text is a sequence of one-character strings.  An optional value is a  *)
(* set: {} is None, {v} is the value v.                                    *)
(***************************************************************************)
EXTENDS Integers, Sequences, FiniteSets, TLC

\* ---- bounds of the model ----
MaxTodos == 3        \* Fast_APi: items held at once
MaxCreates == 4      \* Fast_APi: dict objects ever allocated
MaxUpdateTodos == 2  \* Fast_APi: items held at once under SpecUpdate
MaxFlaskTodos == 4   \* Flask: items held (nothing is ever deleted there)
MaxThreadTodos == 3  \* Flask: items held or being added under SpecFlaskThreads
NumThreads == 2      \* Flask: request threads running add_todo

\* ---- texts ----
Whitespace == {" "}
\* request texts: empty, whitespace only, plain
TaskInputs == { << >>, <<" ">>, <<"a">> }
\* request texts: empty, whitespace only, plain, padded
FlaskTaskInputs ==
    { << >>, <<" ">>, <<" ", " ">>, <<"a">>, <<"b">>, <<" ", "a">>, <<"b", " ">> }

None == {}
Some(v) == {v}
Value(o) == CHOOSE v \in o : TRUE

\* str.strip(): drop leading and trailing whitespace
RECURSIVE lstrip(_)
lstrip(s) ==
    IF s # << >> /\ Head(s) \in Whitespace THEN lstrip(Tail(s)) ELSE s

RECURSIVE rstrip(_)
rstrip(s) ==
    IF s # << >> /\ s[Len(s)] \in Whitespace
    THEN rstrip(SubSeq(s, 1, Len(s) - 1))
    ELSE s

strip(s) == rstrip(lstrip(s))

\* ======================= Fast_APi/app.py =======================

VARIABLES
    todos,      \* the module-level list; each dict also carries obj, the
                \* serial number of the dict object (its identity)
    created,    \* number of dict objects allocated so far
    op,         \* the handler that served the last request
    resp        \* its response

\* ---- Flask/app.py ----
VARIABLES
    fl_todos,   \* the module-level list of {id, task}
    next_id,    \* the module-level counter
    fl_resp,    \* the last response sent
    pc,         \* per request thread: position inside add_todo
    new_todo,   \* per request thread: the local new_todo
    tmp,        \* per request thread: the value loaded by next_id += 1
    raced       \* history: two threads were inside add_todo at the same time

fastVars == <<todos, created, op, resp>>
flaskVars == <<fl_todos, next_id, fl_resp, pc, new_todo, tmp, raced>>
vars == <<todos, created, op, resp, fl_todos, next_id, fl_resp, pc, new_todo, tmp, raced>>

min_length == 1
max_length == 200

TodoIds == 1..(MaxTodos + 1)

\* the dict content: what == compares and what TodoResponse serialises
Fields(t) == [id |-> t.id, task |-> t.task, completed |-> t.completed]

TodoResponse(t) == Fields(t)

ResponseList(ts) == [i \in 1..Len(ts) |-> TodoResponse(ts[i])]

Resp(status, item, list, count) ==
    [status |-> status, item |-> item, list |-> list, count |-> count]

\* Field(..., min_length=1, max_length=200)
TaskFieldValid(task) == Len(task) >= min_length /\ Len(task) <= max_length

\* TodoCreate: task is required
TodoCreate(task) == task # None /\ TaskFieldValid(Value(task))

\* TodoUpdate: both fields optional, a supplied task is validated
TodoUpdate(task, completed) == task = None \/ TaskFieldValid(Value(task))

\* a variant that numbers after the largest id held
get_next_id_max(ts) ==
    IF ts = << >> THEN 1
    ELSE 1 + (CHOOSE m \in {ts[i].id : i \in 1..Len(ts)} :
                 \A i \in 1..Len(ts) : ts[i].id <= m)

get_next_id(ts) == Len(ts) + 1

\* a variant that takes todo_id for a position in the list
find_todo_by_position(ts, todo_id) ==
    IF todo_id \in 1..Len(ts) THEN todo_id ELSE 0

\* index of the first dict whose id matches, 0 for None
find_todo_by_id(ts, todo_id) ==
    IF \E i \in 1..Len(ts) : ts[i].id = todo_id
    THEN CHOOSE i \in 1..Len(ts) :
            /\ ts[i].id = todo_id
            /\ \A j \in 1..(i - 1) : ts[j].id # todo_id
    ELSE 0

RemoveAt(ts, i) == [j \in 1..(Len(ts) - 1) |-> IF j < i THEN ts[j] ELSE ts[j + 1]]

\* a variant that drops every element equal to x
list_remove_all(ts, x) == SelectSeq(ts, LAMBDA t : Fields(t) # Fields(x))

\* list.remove(x): drops the first element equal to x
list_remove(ts, x) ==
    LET i == CHOOSE k \in 1..Len(ts) :
                /\ Fields(ts[k]) = Fields(x)
                /\ \A j \in 1..(k - 1) : Fields(ts[j]) # Fields(x)
    IN RemoveAt(ts, i)

\* a variant that puts x in front
list_insert_front(ts, x) == <<x>> \o ts

\* list.append(x)
list_append(ts, x) == Append(ts, x)

\* a variant that resets a field that was not supplied
apply_update_replace(t, task, completed) ==
    [t EXCEPT !.task = IF task # None THEN Value(task) ELSE @,
              !.completed = IF completed # None THEN Value(completed) ELSE FALSE]

\* lines 117-120: assign the supplied fields
apply_update(t, task, completed) ==
    [t EXCEPT !.task = IF task # None THEN Value(task) ELSE @,
              !.completed = IF completed # None THEN Value(completed) ELSE @]

\* lines 63-67
make_todo(ts, task, serial) ==
    [id |-> get_next_id(ts), task |-> task, completed |-> FALSE, obj |-> serial]

NotFound == Resp(404, None, << >>, 0)
Unprocessable == Resp(422, None, << >>, 0)

get_todos_response(ts) == Resp(200, None, ResponseList(ts), 0)

get_todo_response(ts, todo_id) ==
    LET i == find_todo_by_id(ts, todo_id)
    IN IF i = 0 THEN NotFound ELSE Resp(200, Some(TodoResponse(ts[i])), << >>, 0)

health_check_response(ts) == Resp(200, None, << >>, Len(ts))

FastInit ==
    /\ todos = << >>
    /\ created = 0
    /\ op = "none"
    /\ resp = Resp(0, None, << >>, 0)

root ==
    /\ op' = "root"
    /\ resp' = Resp(200, None, << >>, 0)
    /\ UNCHANGED <<todos, created>>

get_todos ==
    /\ op' = "get_todos"
    /\ resp' = get_todos_response(todos)
    /\ UNCHANGED <<todos, created>>

create_todo(task) ==
    /\ op' = "create_todo"
    /\ IF ~TodoCreate(task)
       THEN /\ resp' = Unprocessable
            /\ UNCHANGED <<todos, created>>
       ELSE /\ Len(todos) < MaxTodos
            /\ created < MaxCreates
            /\ LET new == make_todo(todos, Value(task), created + 1)
               IN /\ todos' = list_append(todos, new)
                  /\ resp' = Resp(201, Some(TodoResponse(new)), << >>, 0)
            /\ created' = created + 1

get_todo(todo_id) ==
    /\ op' = "get_todo"
    /\ resp' = get_todo_response(todos, todo_id)
    /\ UNCHANGED <<todos, created>>

update_todo(todo_id, task, completed) ==
    /\ op' = "update_todo"
    /\ UNCHANGED created
    /\ IF ~TodoUpdate(task, completed)
       THEN /\ resp' = Unprocessable
            /\ UNCHANGED todos
       ELSE LET i == find_todo_by_id(todos, todo_id)
            IN IF i = 0
               THEN /\ resp' = NotFound
                    /\ UNCHANGED todos
               ELSE LET t == apply_update(todos[i], task, completed)
                    IN /\ todos' = [todos EXCEPT ![i] = t]
                       /\ resp' = Resp(200, Some(TodoResponse(t)), << >>, 0)

delete_todo(todo_id) ==
    /\ op' = "delete_todo"
    /\ UNCHANGED created
    /\ LET i == find_todo_by_id(todos, todo_id)
       IN IF i = 0
          THEN /\ resp' = NotFound
               /\ UNCHANGED todos
          ELSE /\ todos' = list_remove(todos, todos[i])
               /\ resp' = Resp(204, None, << >>, 0)

health_check ==
    /\ op' = "health_check"
    /\ resp' = health_check_response(todos)
    /\ UNCHANGED <<todos, created>>

OptTasks == {None} \cup {Some(s) : s \in TaskInputs}
OptBools == {None, Some(TRUE), Some(FALSE)}


\* ========================= Flask/app.py =========================

\* a POST body: is_json is the content type test, kind is what get_json()
\* gives: null, {} , an object without task, an object whose task is not a
\* string, an object whose task is the text in task
FlaskBodies ==
    { [is_json |-> FALSE, kind |-> "null", task |-> << >>] }
    \cup { [is_json |-> TRUE, kind |-> k, task |-> << >>] :
              k \in {"null", "empty", "no_task", "task_not_str"} }
    \cup { [is_json |-> TRUE, kind |-> "task", task |-> t] : t \in FlaskTaskInputs }

FlaskResp(status, item, list) == [status |-> status, item |-> item, list |-> list]

\* lines 20-32: the status of the early return, 0 when the request passes
add_todo_reject(body) ==
    IF ~body.is_json THEN 400
    ELSE IF body.kind \in {"null", "empty", "no_task"} THEN 400
    ELSE IF body.kind = "task_not_str" THEN 500
    ELSE IF strip(body.task) = << >> THEN 400
    ELSE 0

\* lines 35-38
new_todo_dict(nid, task) == [id |-> nid, task |-> task]

\* variants of the increment: by two, and not at all
increment_by_two(n) == n + 2

increment_lost(n) == n

\* line 41
increment(n) == n + 1

Threads == 1..NumThreads

FlaskInit ==
    /\ fl_todos = << >>
    /\ next_id = 1
    /\ fl_resp = FlaskResp(0, None, << >>)
    /\ pc = [p \in Threads |-> "idle"]
    /\ new_todo = [p \in Threads |-> None]
    /\ tmp = [p \in Threads |-> 0]
    /\ raced = FALSE

threadVars == <<pc, new_todo, tmp, raced>>

fl_get_todos ==
    /\ fl_resp' = FlaskResp(200, None, fl_todos)
    /\ UNCHANGED <<fl_todos, next_id>>

home ==
    /\ fl_resp' = FlaskResp(200, None, << >>)
    /\ UNCHANGED <<fl_todos, next_id>>

\* one request served alone, from entry to return
add_todo(body) ==
    IF add_todo_reject(body) # 0
    THEN /\ fl_resp' = FlaskResp(add_todo_reject(body), None, << >>)
         /\ UNCHANGED <<fl_todos, next_id>>
    ELSE /\ Len(fl_todos) < MaxFlaskTodos
         /\ LET new == new_todo_dict(next_id, strip(body.task))
            IN /\ fl_todos' = list_append(fl_todos, new)
               /\ fl_resp' = FlaskResp(201, Some(new), << >>)
         /\ next_id' = increment(next_id)

\* ---- add_todo run by concurrent request threads, one shared access a step ----

InFlight == {p \in Threads : pc[p] # "idle"}

\* lines 20-38: validation works on the request only; new_todo reads next_id
add_todo_build(p, body) ==
    /\ pc[p] = "idle"
    /\ IF add_todo_reject(body) # 0
       THEN /\ fl_resp' = FlaskResp(add_todo_reject(body), None, << >>)
            /\ UNCHANGED <<fl_todos, next_id, pc, new_todo, tmp, raced>>
       ELSE /\ Len(fl_todos) + Cardinality(InFlight) < MaxThreadTodos
            /\ new_todo' = [new_todo EXCEPT ![p] = Some(new_todo_dict(next_id, strip(body.task)))]
            /\ pc' = [pc EXCEPT ![p] = "append"]
            /\ raced' = (raced \/ InFlight # {})
            /\ UNCHANGED <<fl_todos, next_id, fl_resp, tmp>>

\* line 40
add_todo_append(p) ==
    /\ pc[p] = "append"
    /\ fl_todos' = list_append(fl_todos, Value(new_todo[p]))
    /\ pc' = [pc EXCEPT ![p] = "load"]
    /\ UNCHANGED <<next_id, fl_resp, new_todo, tmp, raced>>

\* line 41, the read of next_id += 1
add_todo_load(p) ==
    /\ pc[p] = "load"
    /\ tmp' = [tmp EXCEPT ![p] = next_id]
    /\ pc' = [pc EXCEPT ![p] = "store"]
    /\ UNCHANGED <<fl_todos, next_id, fl_resp, new_todo, raced>>

\* line 41, the write of next_id += 1, and the return of line 43
add_todo_store(p) ==
    /\ pc[p] = "store"
    /\ next_id' = increment(tmp[p])
    /\ fl_resp' = FlaskResp(201, new_todo[p], << >>)
    /\ pc' = [pc EXCEPT ![p] = "idle"]
    /\ new_todo' = [new_todo EXCEPT ![p] = None]
    /\ tmp' = [tmp EXCEPT ![p] = 0]
    /\ UNCHANGED <<fl_todos, raced>>

\* ========================= specifications =========================

Init == FastInit /\ FlaskInit

\* the Fast_APi service, one request at a time
Next ==
    \/ root /\ UNCHANGED flaskVars
    \/ get_todos /\ UNCHANGED flaskVars
    \/ \E task \in OptTasks : create_todo(task) /\ UNCHANGED flaskVars
    \/ \E todo_id \in TodoIds : get_todo(todo_id) /\ UNCHANGED flaskVars
    \/ \E todo_id \in TodoIds, task \in OptTasks, completed \in OptBools :
          update_todo(todo_id, task, completed) /\ UNCHANGED flaskVars
    \/ \E todo_id \in TodoIds : delete_todo(todo_id) /\ UNCHANGED flaskVars
    \/ health_check /\ UNCHANGED flaskVars

Spec == Init /\ [][Next]_vars

\* the Fast_APi service on a shorter list, for the properties that range
\* over every update request
NextUpdate ==
    \/ root /\ UNCHANGED flaskVars
    \/ get_todos /\ UNCHANGED flaskVars
    \/ \E task \in OptTasks :
          create_todo(task) /\ Len(todos') <= MaxUpdateTodos /\ UNCHANGED flaskVars
    \/ \E todo_id \in TodoIds : get_todo(todo_id) /\ UNCHANGED flaskVars
    \/ \E todo_id \in TodoIds, task \in OptTasks, completed \in OptBools :
          update_todo(todo_id, task, completed) /\ UNCHANGED flaskVars
    \/ \E todo_id \in TodoIds : delete_todo(todo_id) /\ UNCHANGED flaskVars
    \/ health_check /\ UNCHANGED flaskVars

SpecUpdate == Init /\ [][NextUpdate]_vars

\* the Flask service, one request at a time
NextFlask ==
    \/ home /\ UNCHANGED threadVars /\ UNCHANGED fastVars
    \/ fl_get_todos /\ UNCHANGED threadVars /\ UNCHANGED fastVars
    \/ \E body \in FlaskBodies : add_todo(body) /\ UNCHANGED threadVars /\ UNCHANGED fastVars

SpecFlask == Init /\ [][NextFlask]_vars

\* the Flask service with threaded request handling
NextFlaskThreads ==
    \/ \E p \in Threads, body \in FlaskBodies : add_todo_build(p, body) /\ UNCHANGED fastVars
    \/ \E p \in Threads : add_todo_append(p) /\ UNCHANGED fastVars
    \/ \E p \in Threads : add_todo_load(p) /\ UNCHANGED fastVars
    \/ \E p \in Threads : add_todo_store(p) /\ UNCHANGED fastVars
    \/ fl_get_todos /\ UNCHANGED threadVars /\ UNCHANGED fastVars

SpecFlaskThreads == Init /\ [][NextFlaskThreads]_vars

\* ========================= properties =========================

HasId(ts, todo_id) == \E i \in 1..Len(ts) : ts[i].id = todo_id

\* position of the first item in list order that carries todo_id
FirstIndex(ts, todo_id) ==
    CHOOSE i \in 1..Len(ts) :
        /\ ts[i].id = todo_id
        /\ \A j \in 1..Len(ts) : ts[j].id = todo_id => i <= j

Blank(task) == \A i \in 1..Len(task) : task[i] \in Whitespace

\* ---- C1 ----
\* C1: in the Fast_APi service the ids of the items in todos are pairwise
\* distinct in every reachable state.
C1_UniqueIds ==
    \A i, j \in 1..Len(todos) : i # j => todos[i].id # todos[j].id

\* ---- C2 ----
\* C2: in both services a create request whose task is empty or only
\* whitespace is rejected (422 by create_todo, 400 by add_todo) and adds no
\* item to the store.
C2_BlankTaskRejected ==
    [][ /\ \A task \in TaskInputs :
              (Blank(task) /\ create_todo(Some(task)))
                  => (resp'.status = 422 /\ todos' = todos)
        /\ \A body \in FlaskBodies :
              (body.is_json /\ body.kind = "task" /\ Blank(body.task) /\ add_todo(body))
                  => (fl_resp'.status = 400 /\ fl_todos' = fl_todos)
      ]_vars

\* ---- C3 ----
\* C3: after a successful delete_todo(id) the deleted item is not in the
\* list get_todos returns and get_todo(id) answers 404.
C3_DeletedIsGone ==
    [][ \A todo_id \in TodoIds :
            (HasId(todos, todo_id) /\ delete_todo(todo_id))
                => LET gone == todos[FirstIndex(todos, todo_id)]
                       listed == get_todos_response(todos').list
                   IN /\ \A k \in 1..Len(listed) : listed[k] # TodoResponse(gone)
                      /\ get_todo_response(todos', todo_id).status = 404
      ]_vars

\* ---- C4 ----
\* C4: get_todo, update_todo and delete_todo called with an id that no item
\* in todos carries answer 404 and leave todos exactly as it was.
C4_AbsentIdNotFound ==
    [][ \A todo_id \in TodoIds :
            ~HasId(todos, todo_id) =>
                /\ get_todo(todo_id) => (resp'.status = 404 /\ todos' = todos)
                /\ delete_todo(todo_id) => (resp'.status = 404 /\ todos' = todos)
                /\ \A task \in OptTasks, completed \in OptBools :
                       (TodoUpdate(task, completed) /\ update_todo(todo_id, task, completed))
                           => (resp'.status = 404 /\ todos' = todos)
      ]_vars

C4_Witness ==
    /\ op \in {"update_todo", "delete_todo"}
    /\ resp.status = 404
    /\ Len(todos) = 2
    /\ \E i \in 1..2 : todos[i].completed

\* ---- C5 ----
\* C5: update_todo on an existing id changes only the supplied fields of the
\* first item carrying the id; its id, its identity, its position and every
\* other item stay as they were.
C5_PartialUpdate ==
    [][ \A todo_id \in TodoIds, task \in OptTasks, completed \in OptBools :
            (HasId(todos, todo_id) /\ TodoUpdate(task, completed)
                /\ update_todo(todo_id, task, completed))
            => LET i == FirstIndex(todos, todo_id)
               IN /\ resp'.status = 200
                  /\ Len(todos') = Len(todos)
                  /\ \A j \in 1..Len(todos) : j # i => todos'[j] = todos[j]
                  /\ todos'[i].id = todos[i].id
                  /\ todos'[i].obj = todos[i].obj
                  /\ todos'[i].task = (IF task = None THEN todos[i].task ELSE Value(task))
                  /\ todos'[i].completed =
                         (IF completed = None THEN todos[i].completed ELSE Value(completed))
                  /\ resp'.item = Some(TodoResponse(todos'[i]))
      ]_vars

C5_Witness ==
    /\ op = "update_todo"
    /\ resp.status = 200
    /\ Len(todos) = 2
    /\ todos[1].id = 2 /\ todos[2].id = 2
    /\ todos[1].completed /\ todos[1].task = <<" ">>
    /\ ~todos[2].completed /\ todos[2].task = <<"a">>
    /\ resp.item = Some(TodoResponse(todos[1]))

\* ---- C6 ----
\* C6: every successful create_todo(task) appends exactly one item
\* {id, task, completed = false} at the end of todos, returns it and leaves
\* the items stored before untouched; todos, and so the list get_todos
\* returns, is in creation order.
C6_CreationOrder ==
    /\ \A i, j \in 1..Len(todos) : i < j => todos[i].obj < todos[j].obj
    /\ op = "get_todos" => resp.list = [i \in 1..Len(todos) |-> Fields(todos[i])]

C6_CreateAppends ==
    /\ []C6_CreationOrder
    /\ [][ \A task \in TaskInputs :
              (TodoCreate(Some(task)) /\ create_todo(Some(task)))
              => /\ Len(todos') = Len(todos) + 1
                 /\ SubSeq(todos', 1, Len(todos)) = todos
                 /\ todos'[Len(todos')].task = task
                 /\ todos'[Len(todos')].completed = FALSE
                 /\ todos'[Len(todos')].obj = created'
                 /\ resp'.status = 201
                 /\ resp'.item = Some(Fields(todos'[Len(todos')]))
         ]_vars

C6_Witness ==
    /\ op = "create_todo"
    /\ resp.status = 201
    /\ Len(todos) = 3
    /\ todos[1].obj = 2 /\ todos[2].obj = 3 /\ todos[3].obj = 4
    /\ todos[1].completed
    /\ resp.item = Some(Fields(todos[3]))

\* ---- C7 ----
\* C7: in the Flask service served one request at a time next_id starts at
\* 1, grows by exactly 1 with each accepted add_todo and is left alone by each
\* rejected one; the ids in todos grow strictly and all lie below next_id.
C7_Accepted(body) ==
    body.is_json /\ body.kind = "task" /\ ~Blank(body.task)

C7_MonotonicCounter ==
    /\ next_id = 1
    /\ [](/\ \A i, j \in 1..Len(fl_todos) : i < j => fl_todos[i].id < fl_todos[j].id
          /\ \A i \in 1..Len(fl_todos) : fl_todos[i].id < next_id)
    /\ [][ \A body \in FlaskBodies :
              add_todo(body) =>
                  IF C7_Accepted(body)
                  THEN /\ next_id' = next_id + 1
                       /\ fl_resp'.status = 201
                       /\ fl_resp'.item = Some(fl_todos'[Len(fl_todos')])
                       /\ fl_todos'[Len(fl_todos')].id = next_id
                  ELSE /\ next_id' = next_id
                       /\ fl_todos' = fl_todos
                       /\ fl_resp'.status \in {400, 500}
         ]_vars

C7_Witness ==
    /\ fl_resp.status = 400
    /\ next_id = 4
    /\ Len(fl_todos) = 3
    /\ fl_todos[3].id = 3

\* ---- C8 ----
\* C8: the id create_todo assigns is the number of items held before the
\* call plus 1; with items of ids 1 and 3 held (three created, the second
\* deleted) the new item gets id 3, the id of an item already held.
C8_CountBasedId ==
    [][ \A task \in TaskInputs :
            (TodoCreate(Some(task)) /\ create_todo(Some(task)))
            => /\ Value(resp'.item).id = Len(todos) + 1
               /\ todos'[Len(todos')].id = Len(todos) + 1
               /\ (Len(todos) = 2 /\ todos[1].id = 1 /\ todos[2].id = 3)
                      => (Value(resp'.item).id = 3 /\ HasId(todos, 3))
      ]_vars

C8_Witness ==
    /\ op = "create_todo"
    /\ resp.status = 201
    /\ Len(todos) = 3
    /\ todos[1].id = 1 /\ todos[2].id = 3 /\ todos[3].id = 3
    /\ todos[1].obj = 1 /\ todos[2].obj = 3 /\ todos[3].obj = 4

\* ---- C9 ----
\* C9: with add_todo run by concurrent threads and no lock, a state is
\* reached, all requests answered, in which two items carry the same id and
\* next_id has advanced by less than the number of items appended
\* (C9_Witness).  Such a state comes only from interleaving: as long as no
\* two threads were inside add_todo together, ids are distinct and next_id
\* is one more than the number of items whenever no request is in flight.
C9_Duplicate == \E i, j \in 1..Len(fl_todos) : i # j /\ fl_todos[i].id = fl_todos[j].id

C9_LostIncrement == next_id - 1 < Len(fl_todos)

C9_OnlyByInterleaving ==
    (InFlight = {} /\ (C9_Duplicate \/ C9_LostIncrement)) => raced

C9_Witness ==
    /\ InFlight = {}
    /\ C9_Duplicate
    /\ C9_LostIncrement
    /\ Len(fl_todos) = 2

\* ---- C10 ----
\* C10: a successful delete_todo(id) removes exactly the first item in list
\* order carrying id; the count health_check reports drops by 1 and every
\* other item, a later one with the same id included, keeps its content and
\* relative order.
C10_DeleteFirstMatch ==
    [][ \A todo_id \in TodoIds :
            (HasId(todos, todo_id) /\ delete_todo(todo_id))
            => LET i == FirstIndex(todos, todo_id)
               IN /\ resp'.status = 204
                  /\ Len(todos') = Len(todos) - 1
                  /\ \A j \in 1..Len(todos') :
                         todos'[j] = (IF j < i THEN todos[j] ELSE todos[j + 1])
                  /\ health_check_response(todos').count
                         = health_check_response(todos).count - 1
      ]_vars

C10_Witness ==
    /\ op = "delete_todo"
    /\ resp.status = 204
    /\ Len(todos) = 2
    /\ todos[1].id = 1 /\ todos[2].id = 3
    /\ todos[1].obj = 1 /\ todos[2].obj = 4

====
